---------------------------- MODULE Spec2Model ----------------------------
(***************************************************************************)
(* dmx-struct: DMXAddress::try_from(&str) and Display for DMXAddress       *)
(* (src/src/lib.rs).                                                       *)
(*                                                                         *)
(* A &str is a sequence of one-character strings.  A u32 is kept as two    *)
(* 16-bit limbs [hi, lo] (value hi * 2^16 + lo) so that the full 32-bit    *)
(* width, its overflow and its wrap-around are computed exactly.           *)
(***************************************************************************)
EXTENDS Integers, Sequences, FiniteSets, TLC

VARIABLES
    overflow_checks,  \* build profile: TRUE = arithmetic overflow panics (debug), FALSE = wraps (release)
    value,            \* the &str handed to DMXAddress::try_from
    result,           \* outcome of try_from(value)
    self,             \* a DMXAddress built field by field (all fields are pub)
    text,             \* format!("{}", self), <<>> while not yet formatted
    reparsed,         \* outcome of try_from(text)
    fromDotted,       \* outcome of try_from("<self.universe>.<self.address>")
    fromAbsolute      \* outcome of try_from("<self.absolute>")

vars == <<overflow_checks, value, result, self, text, reparsed, fromDotted, fromAbsolute>>

---------------------------------------------------------------------------
(* Bounds of the checked input space *)

MaxLen == 3      \* every token over Alphabet up to this length is an input
MaxSmall == 3    \* universes and channels 1..MaxSmall are inputs, besides the boundary values

---------------------------------------------------------------------------
(* Characters and decimal text *)

DigitChars == <<"0", "1", "2", "3", "4", "5", "6", "7", "8", "9">>

IsDigit(ch) == \E i \in 1..10 : DigitChars[i] = ch

DigitVal(ch) == (CHOOSE i \in 1..10 : DigitChars[i] = ch) - 1

\* Display for an unsigned integer: its decimal digits, no padding
RECURSIVE to_string(_)
to_string(n) ==
    IF n < 10 THEN <<DigitChars[n + 1]>>
    ELSE to_string(n \div 10) \o <<DigitChars[(n % 10) + 1]>>

\* the fill of a "{:0w}" format: zeros in front up to a minimum width w
RECURSIVE zero_pad(_, _)
zero_pad(s, w) == IF Len(s) >= w THEN s ELSE zero_pad(<<"0">> \o s, w)

RECURSIVE space_pad(_, _)
space_pad(s, w) == IF Len(s) >= w THEN s ELSE space_pad(<<" ">> \o s, w)

---------------------------------------------------------------------------
(* u32 arithmetic on 16-bit limbs *)

Limb == 2 ^ 16

u32(n) == [hi |-> n \div Limb, lo |-> n % Limb]

IsZero(v) == v.hi = 0 /\ v.lo = 0

\* v > n for a small constant n (n < 2^31)
Gt(v, n) == v.hi > n \div Limb \/ (v.hi = n \div Limb /\ v.lo > n % Limb)

\* a + b: the wrapped sum and whether the exact sum left the u32 range
add(a, b) ==
    LET lo == a.lo + b.lo
        hi == a.hi + b.hi + (lo \div Limb)
    IN  [v |-> [hi |-> hi % Limb, lo |-> lo % Limb], overflow |-> hi >= Limb]

\* a - b: the wrapped difference and whether the exact one left the u32 range
sub(a, b) ==
    LET lo == a.lo - b.lo
        borrow == IF lo < 0 THEN 1 ELSE 0
        hi == a.hi - b.hi - borrow
    IN  [v |-> [hi |-> (hi + Limb) % Limb, lo |-> (lo + Limb) % Limb], overflow |-> hi < 0]

\* a * k for a small constant k (k <= 512)
mul(a, k) ==
    LET lo == a.lo * k
        hi == (a.hi * k) + (lo \div Limb)
    IN  [v |-> [hi |-> hi % Limb, lo |-> lo % Limb], overflow |-> hi >= Limb]

\* a % 512 and a / 512 (512 divides 2^16)
rem512(a) == u32(a.lo % 512)

div512(a) == [hi |-> a.hi \div 512, lo |-> ((a.hi % 512) * 128) + (a.lo \div 512)]

---------------------------------------------------------------------------
(* u32::from_str (radix 10), as called at lib.rs lines 93, 97 and 102 *)

ParseErr == [ok |-> FALSE, v |-> u32(0)]

\* one digit of the accumulation: result.checked_mul(10) then checked_add(digit)
wrapping_push_digit(acc, d) ==
    [v |-> add(mul(acc, 10).v, u32(d)).v, overflow |-> FALSE]

push_digit(acc, d) ==
    LET m == mul(acc, 10)
        s == add(m.v, u32(d))
    IN  [v |-> s.v, overflow |-> m.overflow \/ s.overflow]

\* the digit loop: any byte that is not an ASCII digit, or an overflow, is an error
RECURSIVE parse_digits(_, _)
parse_digits(digits, acc) ==
    IF digits = <<>> THEN [ok |-> TRUE, v |-> acc]
    ELSE IF ~IsDigit(Head(digits)) THEN ParseErr
    ELSE LET p == push_digit(acc, DigitVal(Head(digits)))
         IN  IF p.overflow THEN ParseErr ELSE parse_digits(Tail(digits), p.v)

\* the sign prefix of an unsigned type: one leading '+' is dropped, '-' is not
signed_strip_sign(src) ==
    IF Head(src) = "+" \/ Head(src) = "-" THEN Tail(src) ELSE src

strip_sign(src) == IF Head(src) = "+" THEN Tail(src) ELSE src

u32_from_str(src) ==
    IF src = <<>> THEN ParseErr
    ELSE IF Len(src) = 1 /\ (src[1] = "+" \/ src[1] = "-") THEN ParseErr
    ELSE parse_digits(strip_sign(src), u32(0))

---------------------------------------------------------------------------
(* str::contains(".") and str::split(".").collect() *)

contains(s, ch) == \E i \in 1..Len(s) : s[i] = ch

RECURSIVE split(_, _)
split(s, ch) ==
    IF ~contains(s, ch) THEN <<s>>
    ELSE LET i == CHOOSE k \in 1..Len(s) :
                      s[k] = ch /\ \A j \in 1..(k - 1) : s[j] # ch
         IN  <<SubSeq(s, 1, i - 1)>> \o split(SubSeq(s, i + 1, Len(s)), ch)

---------------------------------------------------------------------------
(* DMXAddress::try_from, lib.rs lines 81-127 *)

MaxUniverse == 63999
MaxAddress == 512

Err == [kind |-> "Err"]
Panic == [kind |-> "Panic"]
NotRun == [kind |-> "NotRun"]

Ok(universe, address, absolute) ==
    [kind |-> "Ok", universe |-> universe, address |-> address, absolute |-> absolute]

\* line 99: absolute = address + ((universe - 1) * 512)
dotted_absolute_from_zero(universe, address) ==
    LET m == mul(universe, MaxAddress)
        s == add(address, m.v)
    IN  [v |-> s.v, overflow |-> m.overflow \/ s.overflow]

dotted_absolute(universe, address) ==
    LET d == sub(universe, u32(1))
        m == mul(d.v, MaxAddress)
        s == add(address, m.v)
    IN  [v |-> s.v, overflow |-> d.overflow \/ m.overflow \/ s.overflow]

\* lines 104-106: address = if x > 0 { x } else { 512 }
absolute_address_zero_based(absolute) == rem512(absolute)

absolute_address(absolute) ==
    LET x == rem512(absolute)
    IN  IF Gt(x, 0) THEN x ELSE u32(MaxAddress)

\* lines 107-113: universe = absolute / 512, plus one unless x == 0
absolute_universe_always_next(absolute) == add(div512(absolute), u32(1)).v

absolute_universe(absolute) ==
    LET x == rem512(absolute)
    IN  IF Gt(x, 0) THEN add(div512(absolute), u32(1)).v ELSE div512(absolute)

\* line 119: the validity test
invalid_without_zero_address(universe, address) ==
    Gt(universe, MaxUniverse) \/ Gt(address, MaxAddress) \/ IsZero(universe)

invalid(universe, address) ==
    Gt(universe, MaxUniverse) \/ Gt(address, MaxAddress) \/ IsZero(address) \/ IsZero(universe)

\* lines 119-126: validate, then narrow universe and address to u16 (try_into().unwrap())
finish(universe, address, absolute) ==
    IF invalid(universe, address) THEN Err
    ELSE IF universe.hi # 0 \/ address.hi # 0 THEN Panic
    ELSE Ok(universe.lo, address.lo, absolute)

\* line 91: only one '.' allowed
wrong_part_count(parts) == Len(parts) # 2

\* lines 86-99
try_from_dotted(s, checks) ==
    LET parts == split(s, ".")
    IN  IF wrong_part_count(parts) THEN Err
        ELSE LET u == u32_from_str(parts[1])
             IN  IF ~u.ok THEN Err
                 ELSE IF IsZero(u.v) THEN Err
                 ELSE LET a == u32_from_str(parts[2])
                      IN  IF ~a.ok THEN Err
                          ELSE LET abs == dotted_absolute(u.v, a.v)
                               IN  IF abs.overflow /\ checks THEN Panic
                                   ELSE finish(u.v, a.v, abs.v)

\* lines 100-114
try_from_absolute(s) ==
    LET n == u32_from_str(s)
    IN  IF ~n.ok THEN Err
        ELSE finish(absolute_universe(n.v), absolute_address(n.v), n.v)

try_from(s, checks) ==
    IF contains(s, ".") THEN try_from_dotted(s, checks) ELSE try_from_absolute(s)

---------------------------------------------------------------------------
(* Display for DMXAddress, lib.rs lines 138-142: "{}.{:03}" *)

fmt_space_padded(a) ==
    to_string(a.universe) \o <<".">> \o space_pad(to_string(a.address), 3)

fmt_two_wide(a) ==
    to_string(a.universe) \o <<".">> \o zero_pad(to_string(a.address), 2)

fmt(a) ==
    to_string(a.universe) \o <<".">> \o zero_pad(to_string(a.address), 3)

---------------------------------------------------------------------------
(* The inputs *)

Alphabet == {"0", "1", "2", "3", ".", "-", "+", " ", "a"}

\* every token over Alphabet of length 0..MaxLen
ShortTokens == UNION {[1..n -> Alphabet] : n \in 0..MaxLen}

Digits(ds) == [i \in 1..Len(ds) |-> DigitChars[ds[i] + 1]]

\* numerals at the edges of the channel, universe, absolute, u16 and u32 ranges
EdgeNumerals ==
    {to_string(n) : n \in (0..MaxSmall) \cup
        {9, 511, 512, 513, 1024, 1536, 1537, 63999, 64000, 65535, 65536,
         32767488, 32767489, 8388608, 8388609}}
    \cup {Digits(<<0, 0, 9>>), Digits(<<0, 5, 1, 2>>),
          Digits(<<0, 0, 0, 0, 0, 0, 0, 0, 0, 0, 1>>),
          Digits(<<4, 2, 9, 4, 9, 6, 7, 2, 9, 5>>),
          Digits(<<4, 2, 9, 4, 9, 6, 7, 2, 9, 6>>),
          Digits(<<4, 2, 9, 4, 9, 6, 7, 2, 9, 7>>),
          Digits(<<4, 2, 9, 4, 9, 6, 7, 8, 0, 8>>),
          Digits(<<9, 8, 9, 8, 1, 2, 6, 5, 1, 2, 3, 5, 1, 9, 6, 8, 1, 9, 8, 1, 6, 8,
                   1, 5, 1, 4, 9, 8, 4, 9, 8, 4, 9, 8, 4, 4, 6, 4, 9, 8, 4, 9, 8, 4>>)}

\* parts that are not plain numerals
OddParts ==
    {<<>>, <<"+">>, <<"-">>, <<"+", "3">>, <<"-", "3">>, <<"+", "+", "3">>,
     <<"3", "+">>, <<" ", "3">>, <<"3", " ">>, <<"3", "a">>,
     <<"+", "5", "1", "2">>, <<"+", "5", "1", "3">>}

Parts == EdgeNumerals \cup OddParts

Tokens ==
    ShortTokens \cup Parts
    \cup {p \o <<".">> \o q : p \in Parts, q \in Parts}
    \cup {<<"1", ".", "2", ".", "3">>, <<"1", ".", ".", "5", "1", "2">>}

Universes == (1..MaxSmall) \cup {0, 9, 10, 99, 100, 999, 1000, 9999, 10000, 63998, 63999, 64000, 65535}

Channels == (1..MaxSmall) \cup {0, 9, 10, 12, 99, 100, 342, 511, 512, 513, 999, 1000, 65535}

\* absolute of a directly built DMXAddress: the consistent value, or one that is not
Consistent(u, c) == IF u >= 1 THEN c + ((u - 1) * MaxAddress) ELSE c

Addresses ==
    {[universe |-> u, address |-> c, absolute |-> Consistent(u, c) + d] :
        u \in Universes, c \in Channels, d \in {0, 1}}

DefaultToken == <<"1", ".", "5", "1", "1">>

DefaultAddress == [universe |-> 1, address |-> 342, absolute |-> 342]

---------------------------------------------------------------------------
(* The state machine: the inputs are drawn, then each operation is applied *)

Init ==
    /\ overflow_checks \in BOOLEAN
    /\ \/ value \in Tokens /\ self = DefaultAddress
       \/ value = DefaultToken /\ self \in Addresses
    /\ result = NotRun
    /\ text = <<>>
    /\ reparsed = NotRun
    /\ fromDotted = NotRun
    /\ fromAbsolute = NotRun

\* DMXAddress::try_from(value)
TryFrom ==
    /\ result = NotRun
    /\ result' = try_from(value, overflow_checks)
    /\ UNCHANGED <<overflow_checks, value, self, text, reparsed, fromDotted, fromAbsolute>>

\* format!("{}", self)
Format ==
    /\ text = <<>>
    /\ text' = fmt(self)
    /\ UNCHANGED <<overflow_checks, value, result, self, reparsed, fromDotted, fromAbsolute>>

\* DMXAddress::try_from(&text): the formatted address parsed back
TryFromFormatted ==
    /\ text # <<>>
    /\ reparsed = NotRun
    /\ reparsed' = try_from(text, overflow_checks)
    /\ UNCHANGED <<overflow_checks, value, result, self, text, fromDotted, fromAbsolute>>

\* DMXAddress::try_from of the dotted token "<universe>.<address>" of self
TryFromDotted ==
    /\ fromDotted = NotRun
    /\ fromDotted' = try_from(to_string(self.universe) \o <<".">> \o to_string(self.address),
                              overflow_checks)
    /\ UNCHANGED <<overflow_checks, value, result, self, text, reparsed, fromAbsolute>>

\* DMXAddress::try_from of the absolute token "<absolute>" of self
TryFromAbsolute ==
    /\ fromAbsolute = NotRun
    /\ fromAbsolute' = try_from(to_string(self.absolute), overflow_checks)
    /\ UNCHANGED <<overflow_checks, value, result, self, text, reparsed, fromDotted>>

Next == TryFrom \/ Format \/ TryFromFormatted \/ TryFromDotted \/ TryFromAbsolute

Spec == Init /\ [][Next]_vars

---------------------------------------------------------------------------
(* What a token denotes, read off its characters alone *)

IsNumeral(s) == s # <<>> /\ \A i \in 1..Len(s) : IsDigit(s[i])

\* a numeral with an optional single leading '+'
IsPlusNumeral(s) == IsNumeral(s) \/ (s # <<>> /\ Head(s) = "+" /\ IsNumeral(Tail(s)))

RECURSIVE Significant(_)
Significant(s) ==
    IF Len(s) > 1 /\ Head(s) = "0" THEN Significant(Tail(s)) ELSE s

RECURSIVE NumeralValue(_)
NumeralValue(s) ==
    IF s = <<>> THEN 0
    ELSE (NumeralValue(SubSeq(s, 1, Len(s) - 1)) * 10) + DigitVal(s[Len(s)])

\* the numeral s denotes a value in lo..hi (hi below 10^9)
InRange(s, lo, hi) ==
    /\ IsNumeral(s)
    /\ Len(Significant(s)) <= 9
    /\ NumeralValue(Significant(s)) \in lo..hi

U32MaxText == Digits(<<4, 2, 9, 4, 9, 6, 7, 2, 9, 5>>)

\* a and b numerals of equal length without leading zeros: a denotes more than b
LexGreater(a, b) ==
    \E i \in 1..Len(a) :
        /\ DigitVal(a[i]) > DigitVal(b[i])
        /\ \A j \in 1..(i - 1) : a[j] = b[j]

\* the numeral s denotes a value above 4294967295
ExceedsU32(s) ==
    /\ IsNumeral(s)
    /\ LET g == Significant(s)
       IN  Len(g) > Len(U32MaxText) \/ (Len(g) = Len(U32MaxText) /\ LexGreater(g, U32MaxText))

DotCount(s) == Cardinality({i \in 1..Len(s) : s[i] = "."})

DotAt(s) == CHOOSE i \in 1..Len(s) : s[i] = "."

\* the two sides of a token with exactly one '.'
Left(s) == SubSeq(s, 1, DotAt(s) - 1)

Right(s) == SubSeq(s, DotAt(s) + 1, Len(s))

\* the token is "<u>.<c>" with both parts decimal numerals
IsDottedNumerals(s) == DotCount(s) = 1 /\ IsNumeral(Left(s)) /\ IsNumeral(Right(s))

MaxAbsolute == MaxUniverse * MaxAddress

Results == {result, reparsed, fromDotted, fromAbsolute}

\* self is a valid address with a consistent absolute field
ValidSelf ==
    /\ self.universe \in 1..MaxUniverse
    /\ self.address \in 1..MaxAddress
    /\ self.absolute = self.address + ((self.universe - 1) * MaxAddress)

---------------------------------------------------------------------------
(* The claims *)

\* C1: try_from always returns Ok or Err: it never panics, whatever the token.
C1_NeverPanics == result.kind \in {"NotRun", "Ok", "Err"}

\* C2: round trip: parsing the formatted text of a valid address succeeds
\* and returns that address, equal in universe, address and absolute.
C2_RoundTrip ==
    (reparsed # NotRun /\ ValidSelf)
        => reparsed = Ok(self.universe, self.address, u32(self.absolute))

C2_Witness ==
    /\ ValidSelf
    /\ self.address = 9
    /\ self.universe = MaxUniverse
    /\ reparsed.kind = "Ok"
    /\ text = to_string(MaxUniverse) \o <<".", "0", "0", "9">>

\* C3: every Ok result, from a dotted or an absolute token, has
\* absolute = address + (universe - 1) * 512, computed without wrap-around.
C3_AbsoluteConsistent ==
    \A r \in Results :
        r.kind = "Ok" => r.absolute = u32(r.address + ((r.universe - 1) * MaxAddress))

C3_Witness ==
    /\ result.kind = "Ok"
    /\ IsDottedNumerals(value)
    /\ result.universe = MaxUniverse
    /\ result.address = MaxAddress

\* C4: a dotted token of two decimal numerals u and c is accepted exactly when
\* 1 <= u <= 63999 and 1 <= c <= 512, with the result {u, c, c + (u-1)*512};
\* every other pair returns Err.
C4_DottedAcceptance ==
    (result # NotRun /\ IsDottedNumerals(value)) =>
        IF InRange(Left(value), 1, MaxUniverse) /\ InRange(Right(value), 1, MaxAddress)
        THEN LET u == NumeralValue(Left(value))
                 c == NumeralValue(Right(value))
             IN  result = Ok(u, c, u32(c + ((u - 1) * MaxAddress)))
        ELSE result = Err

\* C5: a token without '.' that is a decimal numeral n is accepted exactly when
\* 1 <= n <= 32767488; then absolute = n, address = n mod 512 (512 when that is 0)
\* and universe = n div 512 + 1 (n div 512 when the remainder is 0).
C5_AbsoluteForm ==
    (result # NotRun /\ IsNumeral(value)) =>
        IF InRange(value, 1, MaxAbsolute)
        THEN LET n == NumeralValue(value)
                 x == n % MaxAddress
             IN  result = Ok(IF x # 0 THEN (n \div MaxAddress) + 1 ELSE n \div MaxAddress,
                             IF x # 0 THEN x ELSE MaxAddress,
                             u32(n))
        ELSE result = Err

C5_Witness ==
    /\ result.kind = "Ok"
    /\ value = Digits(<<1, 5, 3, 6>>)
    /\ result.universe = 3
    /\ result.address = MaxAddress

\* C6 as stated: every token that is not a run of digits, or two runs of digits
\* joined by one '.', is rejected with Err.
C6_OnlyDigitsAccepted ==
    (result # NotRun /\ ~IsNumeral(value) /\ ~IsDottedNumerals(value)) => result = Err

\* C6 amended: every token that is not a numeric part, or two numeric parts joined
\* by exactly one '.', is rejected with Err, where a numeric part is a non-empty
\* run of decimal digits optionally preceded by a single '+'.
C6_SyntacticRejection ==
    (/\ result # NotRun
     /\ ~IsPlusNumeral(value)
     /\ ~(DotCount(value) = 1 /\ IsPlusNumeral(Left(value)) /\ IsPlusNumeral(Right(value))))
        => result = Err

C6_Witness ==
    /\ value = <<"1", ".", "-", "3">>
    /\ result = Err

\* C7: Display writes the universe in decimal without padding, one '.', and the
\* address as exactly three decimal digits; the absolute field plays no part.
C7_Formatting ==
    (/\ text # <<>>
     /\ self.universe \in 1..MaxUniverse
     /\ self.address \in 1..MaxAddress) =>
        /\ DotCount(text) = 1
        /\ IsNumeral(Left(text))
        /\ Head(text) # "0"
        /\ NumeralValue(Left(text)) = self.universe
        /\ Right(text) = <<DigitChars[(self.address \div 100) + 1],
                           DigitChars[((self.address \div 10) % 10) + 1],
                           DigitChars[(self.address % 10) + 1]>>

C7_Witness ==
    /\ self.universe = 1
    /\ self.address = 9
    /\ self.absolute # 9
    /\ text = <<"1", ".", "0", "0", "9">>

\* C8: a token with a numeric part above 4294967295 (the whole token, or either
\* side of the '.') is rejected with Err, never reduced modulo 2^32 and accepted.
C8_OversizedRejected ==
    (/\ result # NotRun
     /\ \/ ExceedsU32(value)
        \/ DotCount(value) = 1 /\ (ExceedsU32(Left(value)) \/ ExceedsU32(Right(value))))
        => result = Err

C8_Witness ==
    /\ value = <<"1", ".">> \o Digits(<<4, 2, 9, 4, 9, 6, 7, 8, 0, 8>>)
    /\ result = Err

\* C9: every Ok result has 1 <= universe <= 63999, 1 <= address <= 512 and
\* 1 <= absolute <= 32767488.
C9_FieldRanges ==
    \A r \in Results :
        r.kind = "Ok" =>
            /\ r.universe \in 1..MaxUniverse
            /\ r.address \in 1..MaxAddress
            /\ ~IsZero(r.absolute)
            /\ ~Gt(r.absolute, MaxAbsolute)

C9_Witness ==
    /\ result.kind = "Ok"
    /\ ~contains(value, ".")
    /\ result.universe = MaxUniverse
    /\ result.address = MaxAddress
    /\ result.absolute = u32(MaxAbsolute)

\* C10: for a valid universe u and channel c, the dotted token "u.c" and the
\* absolute token of c + (u-1)*512 both parse, to equal addresses, whose absolute
\* field is that number.
C10_SyntaxesAgree ==
    (fromDotted # NotRun /\ fromAbsolute # NotRun /\ ValidSelf) =>
        /\ fromDotted.kind = "Ok"
        /\ fromAbsolute = fromDotted
        /\ fromAbsolute.absolute = u32(self.absolute)
        /\ fromDotted.universe = self.universe
        /\ fromDotted.address = self.address

C10_Witness ==
    /\ ValidSelf
    /\ self.universe = 1
    /\ self.address = MaxAddress
    /\ fromDotted.kind = "Ok"
    /\ fromAbsolute = fromDotted

=============================================================================
